---- MODULE Spec2Model ----
(***************************************************************************)
(* Model of the structured-output schemas of expenses_agent                *)
(* (src/src/expenses_agent/assistant/schemas.py): the validators of        *)
(* ExpenseData, ClassificationResult and AssistantResponse, and the        *)
(* history operations of ConversationContext.                              *)
(*                                                                         *)
(* A Python str is modelled as a sequence of one-character strings, a      *)
(* Python dict as a function whose DOMAIN is its key set, a Python list    *)
(* as a sequence.  A raised ValueError is modelled by the error kind the   *)
(* object construction ends with.                                          *)
(***************************************************************************)
EXTENDS Integers, Sequences, FiniteSets, TLC

VARIABLES
    \* ---- ConversationContext ----
    cpc,                    \* "new" | "live" | "rejected"
    conversation_history,   \* ConversationContext.conversation_history
    constructed,            \* history variable: the history the constructor stored
    added,                  \* history variable: the messages passed to add_message, in order
    recent,                 \* the list the last get_recent_messages call returned
    recent_arg,             \* the count of that call, -1 when none was made
    \* ---- AssistantResponse(**kwargs) ----
    rpc,        \* "idle" | "consistency" | "message" | "questions" | "build" | "done" | "failed"
    rinput,     \* the keyword arguments of the call
    rvalues,    \* the values dict the validators work on
    rerrors,    \* the errors collected so far
    rlog,       \* history variable: the validators that have run, in order
    robj,       \* <<>> or <<the AssistantResponse the call returned>>
    \* ---- ExpenseData(**kwargs) ----
    epc,        \* "idle" | "amount" | "description" | "expense_date" | "build" | "done" | "failed" | "assigned"
    einput,     \* the keyword arguments of the call
    evalues,    \* the field values as validated so far
    eerrors,    \* the errors collected so far
    eobj,       \* <<>> or <<the ExpenseData the call returned>>
    eround,     \* <<>> or <<the ExpenseData whose record form is being re-validated>>
    \* ---- ClassificationResult(**kwargs) ----
    kpc,        \* "idle" | "confidence" | "confidence_score" | "alternatives" | "build" | "done" | "failed"
    kinput,     \* the keyword arguments of the call
    kvalues,    \* the field values as validated so far
    kerrors,    \* the errors collected so far
    kobj,       \* <<>> or <<the ClassificationResult the call returned>>
    \* ---- DatabaseManager.get_session and the repositories ----
    db,         \* the committed tables: [categories |-> rows, expenses |-> rows]
    sdb,        \* the tables as the open session sees them (flushed, uncommitted)
    spc,        \* "idle" | "body" | "commit" | "rollback" | "close"
    scall,      \* the repository call in progress: [op |-> ..., ...]
    sret,       \* the value the body of the with block returned
    sexc,       \* the exception travelling out of the with block, "" if none
    slog,       \* history variable: the session events of the call, in order
    sresult,    \* the outcome of the last call: [status, exc, value]
    pre,        \* history variable: the committed tables when the call started
    \* ExpenseWorkflow.record_expense
    wpc,        \* "idle" | "amount" | "currency" | "description" | "payment" |
                \* "notes" | "date" | "category" | "confirm" | "create" | "done"
    wdata,      \* the expense data collected so far (a dict)
    wcats,      \* the categories offered for selection
    wconfirmed, \* history variable: the user answered y/yes to the summary
    wresult,    \* the outcome of record_expense: [status, exc, value]
    wpre,       \* history variable: the stored expenses when record_expense started
    wchoice,    \* history variable: the entry accepted at the category menu
    wtried,     \* history variable: the entries the Amount prompt turned down
    \* Category(...), Expense(...), Expense.create_expense(...)
    mcall,      \* the construction made: [cls, via, kwargs]
    mobj,       \* the instance it returned, <<>> before any
    mnow,       \* the clock: 0 when models.py was imported
    \* DatabaseManager
    dpc,        \* "idle" | "new" | "init"
    dcaller,    \* who is constructing: "direct" | a repository | the workflow
    dinstance,  \* DatabaseManager._instance: None or an object
    dobjects,   \* the DatabaseManager objects allocated: object |-> its _engine
    dengines,   \* the number of engines create_engine has made
    dholders    \* history variable: who holds which manager, in order

ctx_vars == <<cpc, conversation_history, constructed, added, recent, recent_arg>>

resp_vars == <<rpc, rinput, rvalues, rerrors, rlog, robj>>

exp_vars == <<epc, einput, evalues, eerrors, eobj, eround>>

cls_vars == <<kpc, kinput, kvalues, kerrors, kobj>>

db_vars == <<db, sdb, spc, scall, sret, sexc, slog, sresult, pre>>

wf_vars == <<wpc, wdata, wcats, wconfirmed, wresult, wpre, wchoice, wtried>>

model_vars == <<mcall, mobj, mnow>>

mgr_vars == <<dpc, dcaller, dinstance, dobjects, dengines, dholders>>

vars == <<cpc, conversation_history, constructed, added, recent, recent_arg,
          rpc, rinput, rvalues, rerrors, rlog, robj,
          epc, einput, evalues, eerrors, eobj, eround,
          kpc, kinput, kvalues, kerrors, kobj,
          db, sdb, spc, scall, sret, sexc, slog, sresult, pre,
          wpc, wdata, wcats, wconfirmed, wresult, wpre, wchoice, wtried,
          mcall, mobj, mnow,
          dpc, dcaller, dinstance, dobjects, dengines, dholders>>

----------------------------------------------------------------------------
(* Bounds of the model *)

\* add_message is called at most MaxCalls times on one context
MaxCalls == 12
\* get_recent_messages is called with a count in 0 .. MaxCount
MaxCount == 3
\* strings have at most MaxStrLen characters
MaxStrLen == 2
\* clarification_questions has at most MaxQuestions entries
MaxQuestions == 2
\* amounts are -MaxAmount .. MaxAmount hundredths
MaxAmount == 2
\* scores are multiples of 1/ScoreScale: the score 1.0 is ScoreScale
ScoreScale == 4
\* scores range from -ScoreMargin to ScoreScale + ScoreMargin
ScoreMargin == 2
\* alternative_categories has at most MaxAlternatives entries
MaxAlternatives == 2
\* wall-clock readings of datetimes are 0 .. MaxWall
MaxWall == 1
\* the categories table holds ids up to MaxCategories, the expenses table
\* ids up to MaxExpenses
MaxCategories == 2

MaxExpenses == 1

\* the clock runs from 0 to MaxClock
MaxClock == 2

\* at most MaxHolders objects come to hold a DatabaseManager
MaxHolders == 4

----------------------------------------------------------------------------
(* Python helpers *)

\* seq[start:] for a Python list: a negative start counts from the end and
\* is clamped to 0; a start beyond the end gives the empty list.
PySliceFrom(s, start) ==
    LET n == Len(s)
        i == IF start < 0
             THEN (IF start + n < 0 THEN 0 ELSE start + n)
             ELSE (IF start > n THEN n ELSE start)
    IN  SubSeq(s, i + 1, n)

\* the characters strings are made of: one whitespace, one other
Chars == {" ", "a"}

IsSpace(c) == c = " "

Strings == UNION { [1 .. k -> Chars] : k \in 0 .. MaxStrLen }

\* str.lstrip(), str.rstrip(), str.strip()
RECURSIVE LStrip(_)
LStrip(s) ==
    IF Len(s) > 0 /\ IsSpace(s[1]) THEN LStrip(Tail(s)) ELSE s

RECURSIVE RStrip(_)
RStrip(s) ==
    IF Len(s) > 0 /\ IsSpace(s[Len(s)])
    THEN RStrip(SubSeq(s, 1, Len(s) - 1))
    ELSE s

Strip(s) == RStrip(LStrip(s))

\* Python None, and a value that is not None
None == [some |-> FALSE]

Some(x) == [some |-> TRUE, val |-> x]

Optional(S) == {None} \cup { Some(x) : x \in S }

\* a dict with no key
EmptyDict == [k \in {} |-> TRUE]

\* d.get(key, default)
DictGet(d, key, default) == IF key \in DOMAIN d THEN d[key] ELSE default

\* d[key] = value
DictSet(d, key, value) ==
    [k \in DOMAIN d \cup {key} |-> IF k = key THEN value ELSE d[k]]

----------------------------------------------------------------------------
(* ConversationContext *)

\* the window add_message keeps (schemas.py:297-298)
HistoryLimit == 10

\* the role strings callers pass to add_message
RoleArgs == {"assistant", "system"}

Msg(role, content) == [role |-> role, content |-> content]

\* raw conversation_history values handed to the constructor
RawHistories ==
    { <<>>,
      << Msg("user", "hi") >>,
      << Msg("user", "hi"), Msg("assistant", "hello") >>,
      << Msg("system", "hi") >>,
      << Msg("user", "hi"), [content |-> "hello"] >>,
      << [role |-> "user"], Msg("user", "hi") >>,
      << Msg("user", "hi"), Msg("tool", "x"), Msg("assistant", "hello") >>,
      [i \in 1 .. (HistoryLimit + 1) |-> Msg("user", "hi")] }

\* the error validate_conversation_history raises for one entry, "ok" if none
HistoryEntryError(entry) ==
    IF ~("role" \in DOMAIN entry) \/ ~("content" \in DOMAIN entry)
    THEN "missing_role_or_content"
    ELSE IF ~(entry.role \in {"user", "assistant"})
         THEN "invalid_role"
         ELSE "ok"

\* validate_conversation_history: the first failing entry raises, otherwise
\* the list is returned as it is
RECURSIVE validate_conversation_history(_)
validate_conversation_history(v) ==
    IF v = <<>> THEN "ok"
    ELSE IF HistoryEntryError(Head(v)) # "ok"
         THEN HistoryEntryError(Head(v))
         ELSE validate_conversation_history(Tail(v))

\* add_message keeping the oldest entries instead of the newest
AddMessageResult_KeepOldest(history, role, content) ==
    LET appended == Append(history, Msg(role, content))
    IN  IF Len(appended) > HistoryLimit
        THEN SubSeq(appended, 1, HistoryLimit)
        ELSE appended

\* the list add_message leaves in conversation_history
AddMessageResult(history, role, content) ==
    LET appended == Append(history, Msg(role, content))
    IN  IF Len(appended) > HistoryLimit
        THEN PySliceFrom(appended, -HistoryLimit)
        ELSE appended

\* the list get_recent_messages returns
GetRecentResult(history, count) ==
    IF Len(history) > 0 THEN PySliceFrom(history, -count) ELSE <<>>

\* ConversationContext(conversation_history = raw)
NewConversationContext ==
    /\ cpc = "new"
    /\ \E raw \in RawHistories :
          IF validate_conversation_history(raw) = "ok"
          THEN /\ cpc' = "live"
               /\ conversation_history' = raw
               /\ constructed' = raw
          ELSE /\ cpc' = "rejected"
               /\ UNCHANGED <<conversation_history, constructed>>
    /\ UNCHANGED <<added, recent, recent_arg>>
    /\ UNCHANGED <<resp_vars, exp_vars, cls_vars, db_vars, wf_vars, model_vars, mgr_vars>>

\* context.add_message(role, content); the content of the n-th call is n
add_message ==
    /\ cpc = "live"
    /\ Len(added) < MaxCalls
    /\ \E role \in RoleArgs :
          /\ conversation_history' =
                AddMessageResult(conversation_history, role, Len(added) + 1)
          /\ added' = Append(added, Msg(role, Len(added) + 1))
    /\ recent' = <<>>
    /\ recent_arg' = -1
    /\ UNCHANGED <<cpc, constructed>>
    /\ UNCHANGED <<resp_vars, exp_vars, cls_vars, db_vars, wf_vars, model_vars, mgr_vars>>

\* context.get_recent_messages(count)
get_recent_messages ==
    /\ cpc = "live"
    /\ \E count \in 0 .. MaxCount :
          /\ recent' = GetRecentResult(conversation_history, count)
          /\ recent_arg' = count
    /\ UNCHANGED <<cpc, conversation_history, constructed, added>>
    /\ UNCHANGED <<resp_vars, exp_vars, cls_vars, db_vars, wf_vars, model_vars, mgr_vars>>

InitContext ==
    /\ cpc = "new"
    /\ conversation_history = <<>>
    /\ constructed = <<>>
    /\ added = <<>>
    /\ recent = <<>>
    /\ recent_arg = -1

NextContext ==
    \/ NewConversationContext
    \/ add_message
    \/ get_recent_messages

----------------------------------------------------------------------------
(* AssistantResponse *)

QuestionLists == UNION { [1 .. k -> Strings] : k \in 0 .. MaxQuestions }

\* the keyword arguments of a call: message is always passed,
\* requires_clarification and clarification_questions may be omitted
ResponseInputs ==
    { [message |-> m] @@ rc @@ qs :
        m \in Strings,
        rc \in {EmptyDict} \cup { [requires_clarification |-> b] : b \in BOOLEAN },
        qs \in {EmptyDict} \cup { [clarification_questions |-> q] : q \in QuestionLists } }

\* validate_message without the strip
validate_message_NoStrip(v) ==
    IF Len(v) = 0
    THEN [raised |-> TRUE, value |-> v]
    ELSE [raised |-> FALSE, value |-> v]

\* validate_message: the stripped message, or the error for an empty one
validate_message(v) ==
    LET stripped == Strip(v)
    IN  IF Len(stripped) = 0
        THEN [raised |-> TRUE, value |-> stripped]
        ELSE [raised |-> FALSE, value |-> stripped]

\* validate_clarification_questions: [q.strip() for q in v if q.strip()]
RECURSIVE validate_clarification_questions(_)
validate_clarification_questions(v) ==
    IF Len(v) = 0 THEN <<>>
    ELSE IF Len(Strip(Head(v))) > 0
         THEN <<Strip(Head(v))>> \o validate_clarification_questions(Tail(v))
         ELSE validate_clarification_questions(Tail(v))

\* the consistency pass without its raise
validate_clarification_consistency_NoRaise(values) ==
    LET requires_clarification == DictGet(values, "requires_clarification", FALSE)
        clarification_questions == DictGet(values, "clarification_questions", <<>>)
    IN  IF ~requires_clarification /\ Len(clarification_questions) > 0
        THEN [raised |-> FALSE,
              values |-> DictSet(values, "requires_clarification", TRUE)]
        ELSE [raised |-> FALSE, values |-> values]

\* the consistency pass without the forcing of the flag
validate_clarification_consistency_NoForce(values) ==
    LET requires_clarification == DictGet(values, "requires_clarification", FALSE)
        clarification_questions == DictGet(values, "clarification_questions", <<>>)
    IN  IF requires_clarification /\ Len(clarification_questions) = 0
        THEN [raised |-> TRUE, values |-> values]
        ELSE [raised |-> FALSE, values |-> values]

\* the consistency pass deciding on the trimmed question list
validate_clarification_consistency_Trimmed(values) ==
    LET requires_clarification == DictGet(values, "requires_clarification", FALSE)
        clarification_questions ==
            validate_clarification_questions(
                DictGet(values, "clarification_questions", <<>>))
    IN  IF requires_clarification /\ Len(clarification_questions) = 0
        THEN [raised |-> TRUE, values |-> values]
        ELSE IF ~requires_clarification /\ Len(clarification_questions) > 0
             THEN [raised |-> FALSE,
                   values |-> DictSet(values, "requires_clarification", TRUE)]
             ELSE [raised |-> FALSE, values |-> values]

\* validate_clarification_consistency, the mode="before" model validator:
\* raises, or returns the values with the flag forced
validate_clarification_consistency(values) ==
    LET requires_clarification == DictGet(values, "requires_clarification", FALSE)
        clarification_questions == DictGet(values, "clarification_questions", <<>>)
    IN  IF requires_clarification /\ Len(clarification_questions) = 0
        THEN [raised |-> TRUE, values |-> values]
        ELSE IF ~requires_clarification /\ Len(clarification_questions) > 0
             THEN [raised |-> FALSE,
                   values |-> DictSet(values, "requires_clarification", TRUE)]
             ELSE [raised |-> FALSE, values |-> values]

\* AssistantResponse(**kwargs) is called
NewAssistantResponse ==
    /\ rpc = "idle"
    /\ \E kwargs \in ResponseInputs :
          /\ rinput' = kwargs
          /\ rvalues' = kwargs
    /\ rpc' = "consistency"
    /\ UNCHANGED <<rerrors, rlog, robj>>
    /\ UNCHANGED <<ctx_vars, exp_vars, cls_vars, db_vars, wf_vars, model_vars, mgr_vars>>

\* the model validator runs on the raw values, before any field is validated
RunConsistencyPass ==
    /\ rpc = "consistency"
    /\ LET res == validate_clarification_consistency(rvalues)
       IN  IF res.raised
           THEN /\ rpc' = "failed"
                /\ rerrors' = rerrors \cup {"inconsistent_clarification"}
                /\ UNCHANGED rvalues
           ELSE /\ rpc' = "message"
                /\ rvalues' = res.values
                /\ UNCHANGED rerrors
    /\ rlog' = Append(rlog, "validate_clarification_consistency")
    /\ UNCHANGED <<rinput, robj>>
    /\ UNCHANGED <<ctx_vars, exp_vars, cls_vars, db_vars, wf_vars, model_vars, mgr_vars>>

\* field validation of message; a failing field is recorded and the
\* remaining fields are still validated
RunMessageValidator ==
    /\ rpc = "message"
    /\ LET res == validate_message(rvalues.message)
       IN  IF res.raised
           THEN /\ rerrors' = rerrors \cup {"empty_message"}
                /\ UNCHANGED rvalues
           ELSE /\ rvalues' = DictSet(rvalues, "message", res.value)
                /\ UNCHANGED rerrors
    /\ rpc' = "questions"
    /\ rlog' = Append(rlog, "validate_message")
    /\ UNCHANGED <<rinput, robj>>
    /\ UNCHANGED <<ctx_vars, exp_vars, cls_vars, db_vars, wf_vars, model_vars, mgr_vars>>

\* field validation of clarification_questions; an omitted field takes its
\* default, which is not validated
RunQuestionsValidator ==
    /\ rpc = "questions"
    /\ IF "clarification_questions" \in DOMAIN rvalues
       THEN /\ rvalues' = DictSet(rvalues, "clarification_questions",
                    validate_clarification_questions(rvalues.clarification_questions))
            /\ rlog' = Append(rlog, "validate_clarification_questions")
       ELSE UNCHANGED <<rvalues, rlog>>
    /\ rpc' = "build"
    /\ UNCHANGED <<rinput, rerrors, robj>>
    /\ UNCHANGED <<ctx_vars, exp_vars, cls_vars, db_vars, wf_vars, model_vars, mgr_vars>>

\* the call returns the object, or raises the collected field errors
FinishAssistantResponse ==
    /\ rpc = "build"
    /\ IF rerrors = {}
       THEN /\ rpc' = "done"
            /\ robj' = << [message |-> rvalues.message,
                           requires_clarification |->
                               DictGet(rvalues, "requires_clarification", FALSE),
                           clarification_questions |->
                               DictGet(rvalues, "clarification_questions", <<>>)] >>
       ELSE /\ rpc' = "failed"
            /\ UNCHANGED robj
    /\ UNCHANGED <<rinput, rvalues, rerrors, rlog>>
    /\ UNCHANGED <<ctx_vars, exp_vars, cls_vars, db_vars, wf_vars, model_vars, mgr_vars>>

InitResponse ==
    /\ rpc = "idle"
    /\ rinput = EmptyDict
    /\ rvalues = EmptyDict
    /\ rerrors = {}
    /\ rlog = <<>>
    /\ robj = <<>>

NextResponse ==
    \/ NewAssistantResponse
    \/ RunConsistencyPass
    \/ RunMessageValidator
    \/ RunQuestionsValidator
    \/ FinishAssistantResponse

----------------------------------------------------------------------------
(* ExpenseData *)

\* Decimal amounts, in hundredths
Amounts == (0 - MaxAmount) .. MaxAmount

\* datetime values: a wall-clock reading and a tzinfo, None when naive
\* (offsets in hours; timezone.utc is offset 0)
UTC == 0

DateTimes == { [wall |-> w, tzinfo |-> tz] : w \in 0 .. MaxWall, tz \in Optional({UTC, 5}) }

\* the keyword arguments of a call: every field may be omitted or None
ExpenseInputs ==
    { a @@ d @@ n @@ t :
        a \in {EmptyDict} \cup { [amount |-> v] : v \in Optional(Amounts) },
        d \in {EmptyDict} \cup { [description |-> v] : v \in Optional(Strings) },
        n \in {EmptyDict} \cup { [notes |-> v] : v \in Optional(Strings) },
        t \in {EmptyDict} \cup { [expense_date |-> v] : v \in Optional(DateTimes) } }

\* validate_amount letting zero through
validate_amount_ZeroAllowed(v) ==
    IF v.some /\ v.val < 0
    THEN [raised |-> TRUE, value |-> v]
    ELSE [raised |-> FALSE, value |-> v]

\* validate_amount: raises for an amount <= 0, otherwise returns it
validate_amount(v) ==
    IF v.some /\ v.val <= 0
    THEN [raised |-> TRUE, value |-> v]
    ELSE [raised |-> FALSE, value |-> v]

\* validate_description keeping an empty result as the empty string
validate_description_KeepEmpty(v) ==
    IF v.some THEN Some(Strip(v.val)) ELSE v

\* validate_description: strips; an empty result becomes None
validate_description(v) ==
    IF v.some
    THEN LET stripped == Strip(v.val)
         IN  IF Len(stripped) = 0 THEN None ELSE Some(stripped)
    ELSE v

\* validate_expense_date stamping UTC on aware datetimes too
validate_expense_date_AlwaysUTC(v) ==
    IF v.some
    THEN Some([v.val EXCEPT !.tzinfo = Some(UTC)])
    ELSE v

\* validate_expense_date: a naive datetime gets tzinfo=timezone.utc
validate_expense_date(v) ==
    IF v.some /\ ~v.val.tzinfo.some
    THEN Some([v.val EXCEPT !.tzinfo = Some(UTC)])
    ELSE v

\* ExpenseData(**kwargs) is called
NewExpenseData ==
    /\ epc = "idle"
    /\ \E kwargs \in ExpenseInputs :
          /\ einput' = kwargs
          /\ evalues' = kwargs
    /\ epc' = "amount"
    /\ UNCHANGED <<eerrors, eobj, eround>>
    /\ UNCHANGED <<ctx_vars, resp_vars, cls_vars, db_vars, wf_vars, model_vars, mgr_vars>>

\* field validation of amount (an omitted field takes its default, which
\* is not validated)
RunAmountValidator ==
    /\ epc = "amount"
    /\ IF "amount" \in DOMAIN evalues /\ validate_amount(evalues.amount).raised
       THEN eerrors' = eerrors \cup {"invalid_amount"}
       ELSE UNCHANGED eerrors
    /\ epc' = "description"
    /\ UNCHANGED <<einput, evalues, eobj, eround>>
    /\ UNCHANGED <<ctx_vars, resp_vars, cls_vars, db_vars, wf_vars, model_vars, mgr_vars>>

\* field validation of description
RunDescriptionValidator ==
    /\ epc = "description"
    /\ IF "description" \in DOMAIN evalues
       THEN evalues' = DictSet(evalues, "description",
                               validate_description(evalues.description))
       ELSE UNCHANGED evalues
    /\ epc' = "expense_date"
    /\ UNCHANGED <<einput, eerrors, eobj, eround>>
    /\ UNCHANGED <<ctx_vars, resp_vars, cls_vars, db_vars, wf_vars, model_vars, mgr_vars>>

\* field validation of expense_date
RunExpenseDateValidator ==
    /\ epc = "expense_date"
    /\ IF "expense_date" \in DOMAIN evalues
       THEN evalues' = DictSet(evalues, "expense_date",
                               validate_expense_date(evalues.expense_date))
       ELSE UNCHANGED evalues
    /\ epc' = "build"
    /\ UNCHANGED <<einput, eerrors, eobj, eround>>
    /\ UNCHANGED <<ctx_vars, resp_vars, cls_vars, db_vars, wf_vars, model_vars, mgr_vars>>

\* the call returns the object, or raises the collected field errors;
\* notes has no validator and is stored as passed
FinishExpenseData ==
    /\ epc = "build"
    /\ IF eerrors = {}
       THEN /\ epc' = "done"
            /\ eobj' = << [amount |-> DictGet(evalues, "amount", None),
                           description |-> DictGet(evalues, "description", None),
                           notes |-> DictGet(evalues, "notes", None),
                           expense_date |-> DictGet(evalues, "expense_date", None)] >>
       ELSE /\ epc' = "failed"
            /\ UNCHANGED eobj
    /\ UNCHANGED <<einput, evalues, eerrors, eround>>
    /\ UNCHANGED <<ctx_vars, resp_vars, cls_vars, db_vars, wf_vars, model_vars, mgr_vars>>

\* class Config of ExpenseData sets use_enum_values and json_encoders only:
\* frozen and validate_assignment keep their defaults
ConfigFrozen == FALSE

ConfigValidateAssignment == FALSE

\* the validator of a field, run on a value
FieldValidator(field, v) ==
    CASE field = "amount" -> validate_amount(v)
      [] field = "description" ->
            [raised |-> FALSE, value |-> validate_description(v)]
      [] field = "expense_date" ->
            [raised |-> FALSE, value |-> validate_expense_date(v)]
      [] OTHER -> [raised |-> FALSE, value |-> v]

\* BaseModel.__setattr__: obj.field = v
SetAttr(obj, field, v) ==
    IF ConfigFrozen THEN [raised |-> TRUE, obj |-> obj]
    ELSE IF ConfigValidateAssignment
         THEN IF FieldValidator(field, v).raised
              THEN [raised |-> TRUE, obj |-> obj]
              ELSE [raised |-> FALSE,
                    obj |-> [obj EXCEPT ![field] = FieldValidator(field, v).value]]
         ELSE [raised |-> FALSE, obj |-> [obj EXCEPT ![field] = v]]

\* the assignments a holder of the object tries
Assignments ==
    << [field |-> "amount", value |-> Some(0)],
       [field |-> "amount", value |-> Some(1)],
       [field |-> "description", value |-> Some(<<" ">>)],
       [field |-> "notes", value |-> None],
       [field |-> "expense_date", value |-> Some([wall |-> 0, tzinfo |-> None])] >>

\* expense_data.field = value on a constructed ExpenseData
SetAttribute ==
    /\ epc \in {"done", "assigned"}
    /\ \E i \in 1 .. Len(Assignments) :
          eobj' = << SetAttr(eobj[1], Assignments[i].field, Assignments[i].value).obj >>
    /\ epc' = "assigned"
    /\ UNCHANGED <<einput, evalues, eerrors, eround>>
    /\ UNCHANGED <<ctx_vars, resp_vars, cls_vars, db_vars, wf_vars, model_vars, mgr_vars>>

\* ---- the record form of an ExpenseData (json_encoders of Config) ----

DigitChars == <<"0", "1", "2", "3", "4", "5", "6", "7", "8", "9">>

DigitOf(c) == CHOOSE d \in 0 .. 9 : DigitChars[d + 1] = c

\* str(k) and int(s) for a natural number
RECURSIVE NatToStr(_)
NatToStr(k) ==
    IF k < 10 THEN <<DigitChars[k + 1]>>
    ELSE NatToStr(k \div 10) \o <<DigitChars[(k % 10) + 1]>>

RECURSIVE StrToNat(_)
StrToNat(t) ==
    IF Len(t) = 0 THEN 0
    ELSE 10 * StrToNat(SubSeq(t, 1, Len(t) - 1)) + DigitOf(t[Len(t)])

\* the first position of one of the characters cs in t, 0 if there is none
FirstIndexOf(t, cs) ==
    IF \E i \in 1 .. Len(t) : t[i] \in cs
    THEN CHOOSE i \in 1 .. Len(t) :
            t[i] \in cs /\ \A j \in 1 .. (i - 1) : t[j] \notin cs
    ELSE 0

\* Decimal: str -- an amount of n hundredths is written with two decimals
DecimalToStr(n) ==
    LET a == IF n < 0 THEN 0 - n ELSE n
    IN  (IF n < 0 THEN <<"-">> ELSE <<>>)
            \o NatToStr(a \div 100) \o <<".">>
            \o <<DigitChars[((a \div 10) % 10) + 1], DigitChars[(a % 10) + 1]>>

\* Decimal(s) for a decimal string with two decimals
StrToDecimal(t) ==
    LET neg == Len(t) > 0 /\ t[1] = "-"
        u == IF neg THEN Tail(t) ELSE t
        dot == FirstIndexOf(u, {"."})
        a == 100 * StrToNat(SubSeq(u, 1, dot - 1))
                + StrToNat(SubSeq(u, dot + 1, Len(u)))
    IN  IF neg THEN 0 - a ELSE a

\* an encoder writing the reading of a datetime without its offset
IsoFormat_NoOffset(dt) == NatToStr(dt.wall)

\* datetime: v.isoformat() -- the reading, then the signed offset when the
\* datetime is aware
IsoFormat(dt) ==
    NatToStr(dt.wall)
        \o (IF dt.tzinfo.some
            THEN (IF dt.tzinfo.val < 0 THEN <<"-">> ELSE <<"+">>)
                    \o NatToStr(IF dt.tzinfo.val < 0 THEN 0 - dt.tzinfo.val
                                                     ELSE dt.tzinfo.val)
            ELSE <<>>)

\* the datetime an ISO-8601 string is parsed to
FromIsoFormat(t) ==
    LET sgn == FirstIndexOf(t, {"+", "-"})
    IN  IF sgn = 0
        THEN [wall |-> StrToNat(t), tzinfo |-> None]
        ELSE [wall |-> StrToNat(SubSeq(t, 1, sgn - 1)),
              tzinfo |-> Some(IF t[sgn] = "-"
                              THEN 0 - StrToNat(SubSeq(t, sgn + 1, Len(t)))
                              ELSE StrToNat(SubSeq(t, sgn + 1, Len(t))))]

\* the record form of an ExpenseData: every field, None as null, the
\* amount as a decimal string, the date as an ISO-8601 string
ToRecord(obj) ==
    [amount |-> IF obj.amount.some THEN Some(DecimalToStr(obj.amount.val)) ELSE None,
     description |-> obj.description,
     notes |-> obj.notes,
     expense_date |-> IF obj.expense_date.some
                      THEN Some(IsoFormat(obj.expense_date.val)) ELSE None]

\* the keyword arguments the field types parse a record into
ParseRecord(rec) ==
    [amount |-> IF rec.amount.some THEN Some(StrToDecimal(rec.amount.val)) ELSE None,
     description |-> rec.description,
     notes |-> rec.notes,
     expense_date |-> IF rec.expense_date.some
                      THEN Some(FromIsoFormat(rec.expense_date.val)) ELSE None]

\* ExpenseData(**record) for the record form of the object just returned
RevalidateRecord ==
    /\ epc = "done"
    /\ eround = <<>>
    /\ einput' = ParseRecord(ToRecord(eobj[1]))
    /\ evalues' = ParseRecord(ToRecord(eobj[1]))
    /\ eround' = eobj
    /\ eobj' = <<>>
    /\ epc' = "amount"
    /\ UNCHANGED eerrors
    /\ UNCHANGED <<ctx_vars, resp_vars, cls_vars, db_vars, wf_vars, model_vars, mgr_vars>>

InitExpense ==
    /\ epc = "idle"
    /\ einput = EmptyDict
    /\ evalues = EmptyDict
    /\ eerrors = {}
    /\ eobj = <<>>
    /\ eround = <<>>

NextExpense ==
    \/ NewExpenseData
    \/ RunAmountValidator
    \/ RunDescriptionValidator
    \/ RunExpenseDateValidator
    \/ FinishExpenseData
    \/ SetAttribute
    \/ RevalidateRecord

----------------------------------------------------------------------------
(* ClassificationResult *)

\* confidence_score values, in units of 1/ScoreScale
Scores == (0 - ScoreMargin) .. (ScoreScale + ScoreMargin)

\* the values of an alternative's keys: a number or a str
NumValue(n) == [float |-> n]

StrValue(t) == [str |-> t]

\* isinstance(x, (int, float))
IsNumber(x) == "float" \in DOMAIN x

AltScores == { NumValue(n) : n \in (0 - 1) .. (ScoreScale + 1) } \cup {StrValue("high")}

\* entries of alternative_categories: dicts that may lack "name" or "score"
AltEntries ==
    { [name |-> StrValue("food"), score |-> sc] : sc \in AltScores }
        \cup { [name |-> StrValue("food")],
               [score |-> NumValue(ScoreScale)],
               EmptyDict }

AltLists == UNION { [1 .. k -> AltEntries] : k \in 0 .. MaxAlternatives }

\* the values passed as confidence: members of ConfidenceLevel and one that
\* is not
ConfidenceLevel == {"high", "medium", "low"}

ConfidenceArgs == {"high", "bogus"}

\* the keyword arguments of a call: confidence_score is always passed,
\* confidence and alternative_categories may be omitted
ClassificationInputs ==
    { [confidence_score |-> sc] @@ c @@ alts :
        sc \in Scores,
        c \in {EmptyDict} \cup { [confidence |-> v] : v \in ConfidenceArgs },
        alts \in {EmptyDict} \cup { [alternative_categories |-> l] : l \in AltLists } }

\* the range check with gt/lt in place of ge/le
ConfidenceScoreInRange_Exclusive(v) == 0 < v /\ v < ScoreScale

\* Field(..., ge=0.0, le=1.0) of confidence_score
ConfidenceScoreInRange(v) == 0 <= v /\ v <= ScoreScale

\* the error validate_alternatives raises for one entry, "ok" if none
AlternativeError(alt) ==
    IF ~("name" \in DOMAIN alt) \/ ~("score" \in DOMAIN alt)
    THEN "missing_name_or_score"
    ELSE IF ~IsNumber(alt.score)
            \/ ~(0 <= alt.score.float /\ alt.score.float <= ScoreScale)
         THEN "score_not_in_range"
         ELSE "ok"

\* validate_alternatives: the first failing entry raises, otherwise the
\* list is returned as it is
RECURSIVE AlternativesError(_)
AlternativesError(v) ==
    IF Len(v) = 0 THEN "ok"
    ELSE IF AlternativeError(Head(v)) # "ok"
         THEN AlternativeError(Head(v))
         ELSE AlternativesError(Tail(v))

\* validate_alternatives checking the first entry only
validate_alternatives_FirstOnly(v) ==
    [raised |-> Len(v) > 0 /\ AlternativeError(Head(v)) # "ok",
     error |-> IF Len(v) > 0 THEN AlternativeError(Head(v)) ELSE "ok",
     value |-> v]

validate_alternatives(v) ==
    [raised |-> AlternativesError(v) # "ok",
     error |-> AlternativesError(v),
     value |-> v]

\* ClassificationResult(**kwargs) is called
NewClassificationResult ==
    /\ kpc = "idle"
    /\ \E kwargs \in ClassificationInputs :
          /\ kinput' = kwargs
          /\ kvalues' = kwargs
    /\ kpc' = "confidence"
    /\ UNCHANGED <<kerrors, kobj>>
    /\ UNCHANGED <<ctx_vars, resp_vars, exp_vars, db_vars, wf_vars, model_vars, mgr_vars>>

\* field validation of confidence: required, a member of ConfidenceLevel
RunConfidenceValidator ==
    /\ kpc = "confidence"
    /\ IF "confidence" \notin DOMAIN kvalues
       THEN kerrors' = kerrors \cup {"missing_confidence"}
       ELSE IF kvalues.confidence \notin ConfidenceLevel
            THEN kerrors' = kerrors \cup {"invalid_enum_value"}
            ELSE UNCHANGED kerrors
    /\ kpc' = "confidence_score"
    /\ UNCHANGED <<kinput, kvalues, kobj>>
    /\ UNCHANGED <<ctx_vars, resp_vars, exp_vars, db_vars, wf_vars, model_vars, mgr_vars>>

\* field validation of confidence_score
RunConfidenceScoreValidator ==
    /\ kpc = "confidence_score"
    /\ IF ConfidenceScoreInRange(kvalues.confidence_score)
       THEN UNCHANGED kerrors
       ELSE kerrors' = kerrors \cup {"out_of_range"}
    /\ kpc' = "alternatives"
    /\ UNCHANGED <<kinput, kvalues, kobj>>
    /\ UNCHANGED <<ctx_vars, resp_vars, exp_vars, db_vars, wf_vars, model_vars, mgr_vars>>

\* field validation of alternative_categories (an omitted field takes its
\* default, which is not validated)
RunAlternativesValidator ==
    /\ kpc = "alternatives"
    /\ IF "alternative_categories" \in DOMAIN kvalues
       THEN LET res == validate_alternatives(kvalues.alternative_categories)
            IN  IF res.raised
                THEN /\ kerrors' = kerrors \cup {res.error}
                     /\ UNCHANGED kvalues
                ELSE /\ kvalues' = DictSet(kvalues, "alternative_categories", res.value)
                     /\ UNCHANGED kerrors
       ELSE UNCHANGED <<kvalues, kerrors>>
    /\ kpc' = "build"
    /\ UNCHANGED <<kinput, kobj>>
    /\ UNCHANGED <<ctx_vars, resp_vars, exp_vars, db_vars, wf_vars, model_vars, mgr_vars>>

\* the call returns the object, or raises the collected field errors
FinishClassificationResult ==
    /\ kpc = "build"
    /\ IF kerrors = {}
       THEN /\ kpc' = "done"
            /\ kobj' = << [confidence |-> kvalues.confidence,
                           confidence_score |-> kvalues.confidence_score,
                           alternative_categories |->
                               DictGet(kvalues, "alternative_categories", <<>>)] >>
       ELSE /\ kpc' = "failed"
            /\ UNCHANGED kobj
    /\ UNCHANGED <<kinput, kvalues, kerrors>>
    /\ UNCHANGED <<ctx_vars, resp_vars, exp_vars, db_vars, wf_vars, model_vars, mgr_vars>>

InitClassification ==
    /\ kpc = "idle"
    /\ kinput = EmptyDict
    /\ kvalues = EmptyDict
    /\ kerrors = {}
    /\ kobj = <<>>

NextClassification ==
    \/ NewClassificationResult
    \/ RunConfidenceValidator
    \/ RunConfidenceScoreValidator
    \/ RunAlternativesValidator
    \/ FinishClassificationResult

----------------------------------------------------------------------------
(* DatabaseManager.get_session, CategoryRepository, ExpenseRepository *)

\* a dict without one key
DictDrop(d, key) == [k \in DOMAIN d \ {key} |-> d[k]]

\* the ids callers pass: every id a table can hold and one it cannot
CategoryIds == 1 .. (MaxCategories + 1)

ExpenseIds == 1 .. (MaxExpenses + 1)

\* a Category row: its id and is_active; an Expense row: its id, amount
\* and category_id
CategoryRow(id, is_active) == [id |-> id, is_active |-> is_active]

ExpenseRow(id, amount, category_id) ==
    [id |-> id, amount |-> amount, category_id |-> category_id]

\* the id the table gives a new row: one more than the largest id in it
NextId(rows) ==
    IF rows = {} THEN 1
    ELSE (CHOOSE r \in rows : \A q \in rows : q.id <= r.id).id + 1

\* select(...).where(id == wanted).first(): None or the row
FirstById(rows, wanted) ==
    IF \E r \in rows : r.id = wanted
    THEN Some(CHOOSE r \in rows : r.id = wanted)
    ELSE None

\* the rows of a result in the order the table returns them, by id
RECURSIVE RowList(_)
RowList(rows) ==
    IF rows = {} THEN <<>>
    ELSE LET r == CHOOSE x \in rows : \A q \in rows : x.id <= q.id
         IN  <<r>> \o RowList(rows \ {r})

\* the category_data dicts passed to create_category
FullCategoryData == [name |-> "food", description |-> "meals", color_code |-> "#fff"]

CategoryInputs ==
    { FullCategoryData,
      FullCategoryData @@ [is_active |-> FALSE],
      DictDrop(FullCategoryData, "name"),
      DictDrop(FullCategoryData, "description"),
      DictDrop(FullCategoryData, "color_code"),
      EmptyDict }

\* the expense_data dicts passed to create_expense
FullExpenseData(amount, category_id) ==
    [user_name |-> "ann", amount |-> amount, currency |-> "USD",
     description |-> "lunch", notes |-> "", category_id |-> category_id]

ExpenseDataDicts ==
    { FullExpenseData(1, c) : c \in {None, Some(1)} }
        \cup { DictDrop(FullExpenseData(1, None), k) :
                 k \in {"user_name", "amount", "currency", "description",
                        "notes", "category_id"} }

\* the updates dicts passed to update_category and update_expense
CategoryUpdates == { EmptyDict, [is_active |-> FALSE], [is_active |-> TRUE],
                     [colour |-> "red"] }

ExpenseUpdates == { EmptyDict, [category_id |-> None], [colour |-> "red"] }

\* the repository calls
Calls ==
    { [op |-> "create_category", data |-> d] : d \in CategoryInputs }
      \cup { [op |-> "get_category_by_id", id |-> i] : i \in CategoryIds }
      \cup { [op |-> "get_all_categories", active_only |-> b] : b \in BOOLEAN }
      \cup { [op |-> "update_category", id |-> i, updates |-> u] :
               i \in CategoryIds, u \in CategoryUpdates }
      \cup { [op |-> "delete_category", id |-> i] : i \in CategoryIds }
      \cup { [op |-> "create_expense", data |-> d] : d \in ExpenseDataDicts }
      \cup { [op |-> "get_expense_by_id", id |-> i] : i \in ExpenseIds }
      \cup { [op |-> "update_expense", id |-> i, updates |-> u] :
               i \in ExpenseIds, u \in ExpenseUpdates }
      \cup { [op |-> "delete_expense", id |-> i] : i \in ExpenseIds }

\* the values a body returns
RetNone == [kind |-> "None"]

RetRow(r) == [kind |-> "row", row |-> r]

RetBool(b) == [kind |-> "bool", val |-> b]

RetList(l) == [kind |-> "list", rows |-> l]

\* a required set that forgets color_code
RequiredCategoryFields_NoColor == {"name", "description"}

\* required_fields of create_category and create_expense
RequiredCategoryFields == {"name", "description", "color_code"}

RequiredExpenseFields == {"user_name", "amount", "currency", "description", "notes"}

\* the check made before the session is opened: TRUE when ValueError is raised
MissingRequired(call) ==
    CASE call.op = "create_category" ->
            ~(RequiredCategoryFields \subseteq DOMAIN call.data)
      [] call.op = "create_expense" ->
            ~(RequiredExpenseFields \subseteq DOMAIN call.data)
      [] OTHER -> FALSE

\* the Python value of Category.is_active is True: an identity test of the
\* column attribute against True, which is False whatever the rows hold
IsActiveIsTrue == FALSE

\* select(Category), with .where(Category.is_active is True) when
\* active_only: the rows the statement returns
SelectCategories(rows, active_only) ==
    IF active_only
    THEN { r \in rows : IsActiveIsTrue }
    ELSE rows

\* for field, value in updates.items(): if hasattr(row, field): setattr(...)
ApplyUpdates(row, updates) ==
    [f \in DOMAIN row |-> IF f \in DOMAIN updates THEN updates[f] ELSE row[f]]

\* a delete that forgets its where clause
DeleteRow_All(rows, id) == {}

\* session.delete(row) for the row with that id
DeleteRow(rows, id) == { r \in rows : r.id # id }

\* the body of the with block of a call, run on the session's view of the
\* tables: the view it leaves and the value it returns
ExecBody(call, view) ==
    CASE call.op = "create_category" ->
            LET row == CategoryRow(NextId(view.categories),
                                   DictGet(call.data, "is_active", TRUE))
            IN  [view |-> [view EXCEPT !.categories = @ \cup {row}],
                 ret |-> RetRow(row)]
      [] call.op = "get_category_by_id" ->
            LET found == FirstById(view.categories, call.id)
            IN  [view |-> view,
                 ret |-> IF found.some THEN RetRow(found.val) ELSE RetNone]
      [] call.op = "get_all_categories" ->
            [view |-> view,
             ret |-> RetList(RowList(SelectCategories(view.categories,
                                                      call.active_only)))]
      [] call.op = "update_category" ->
            LET found == FirstById(view.categories, call.id)
            IN  IF found.some
                THEN LET row == ApplyUpdates(found.val, call.updates)
                     IN  [view |-> [view EXCEPT !.categories =
                                       (@ \ {found.val}) \cup {row}],
                          ret |-> RetRow(row)]
                ELSE [view |-> view, ret |-> RetNone]
      [] call.op = "delete_category" ->
            LET found == FirstById(view.categories, call.id)
            IN  IF found.some
                THEN [view |-> [view EXCEPT !.categories = DeleteRow(@, call.id)],
                      ret |-> RetBool(TRUE)]
                ELSE [view |-> view, ret |-> RetBool(FALSE)]
      [] call.op = "create_expense" ->
            LET row == ExpenseRow(NextId(view.expenses), call.data.amount,
                                  DictGet(call.data, "category_id", None))
            IN  [view |-> [view EXCEPT !.expenses = @ \cup {row}],
                 ret |-> RetRow(row)]
      [] call.op = "get_expense_by_id" ->
            LET found == FirstById(view.expenses, call.id)
            IN  [view |-> view,
                 ret |-> IF found.some THEN RetRow(found.val) ELSE RetNone]
      [] call.op = "update_expense" ->
            LET found == FirstById(view.expenses, call.id)
            IN  IF found.some
                THEN LET row == ApplyUpdates(found.val, call.updates)
                     IN  [view |-> [view EXCEPT !.expenses =
                                       (@ \ {found.val}) \cup {row}],
                          ret |-> RetRow(row)]
                ELSE [view |-> view, ret |-> RetNone]
      [] call.op = "delete_expense" ->
            LET found == FirstById(view.expenses, call.id)
            IN  IF found.some
                THEN [view |-> [view EXCEPT !.expenses = DeleteRow(@, call.id)],
                      ret |-> RetBool(TRUE)]
                ELSE [view |-> view, ret |-> RetBool(FALSE)]

\* a create the tables have no room for
TableFull(call) ==
    \/ call.op = "create_category" /\ NextId(db.categories) > MaxCategories
    \/ call.op = "create_expense" /\ NextId(db.expenses) > MaxExpenses

\* get_session without its except clause
AfterBody_NoRollback(raised) == IF raised THEN "close" ELSE "commit"

\* get_session: where control goes when the body of the with block ends --
\* normally to session.commit(), with an exception to the except clause
AfterBody(raised) == IF raised THEN "rollback" ELSE "commit"

\* a repository method is entered: create_* check their required fields and
\* raise ValueError before any session exists; otherwise get_session opens
\* a Session
Invoke(call) ==
    /\ scall' = call
    /\ IF MissingRequired(call)
       THEN /\ sresult' = [status |-> "raised", exc |-> "ValueError",
                           value |-> RetNone]
            /\ UNCHANGED <<spc, sdb>>
       ELSE /\ sresult' = [status |-> "running", exc |-> "", value |-> RetNone]
            /\ spc' = "body"
            /\ sdb' = db
    /\ slog' = <<>>
    /\ sret' = RetNone
    /\ sexc' = ""
    /\ pre' = db
    /\ UNCHANGED db

\* a caller other than the workflow calls a repository method
CallRepository ==
    /\ spc = "idle"
    /\ wpc \in {"idle", "done"}
    /\ \E call \in Calls : ~TableFull(call) /\ Invoke(call)
    /\ UNCHANGED <<ctx_vars, resp_vars, exp_vars, cls_vars, wf_vars, model_vars, mgr_vars>>

\* the body of the with block runs: it returns, or a statement raises
SessionBody ==
    /\ spc = "body"
    /\ \/ /\ sdb' = ExecBody(scall, sdb).view
          /\ sret' = ExecBody(scall, sdb).ret
          /\ spc' = AfterBody(FALSE)
          /\ UNCHANGED sexc
       \/ /\ sexc' = "DatabaseError"
          /\ spc' = AfterBody(TRUE)
          /\ UNCHANGED <<sdb, sret>>
    /\ UNCHANGED <<db, scall, slog, sresult, pre>>
    /\ UNCHANGED <<ctx_vars, resp_vars, exp_vars, cls_vars, wf_vars, model_vars, mgr_vars>>

\* session.commit(): the session's view becomes the committed tables, or
\* the commit raises and control goes to the except clause
SessionCommit ==
    /\ spc = "commit"
    /\ \/ /\ db' = sdb
          /\ slog' = Append(slog, "commit")
          /\ spc' = "close"
          /\ UNCHANGED sexc
       \/ /\ sexc' = "DatabaseError"
          /\ slog' = Append(slog, "commit_failed")
          /\ spc' = "rollback"
          /\ UNCHANGED db
    /\ UNCHANGED <<sdb, scall, sret, sresult, pre>>
    /\ UNCHANGED <<ctx_vars, resp_vars, exp_vars, cls_vars, wf_vars, model_vars, mgr_vars>>

\* except Exception: session.rollback(); raise
SessionRollback ==
    /\ spc = "rollback"
    /\ sdb' = db
    /\ slog' = Append(slog, "rollback")
    /\ spc' = "close"
    /\ UNCHANGED <<db, scall, sret, sexc, sresult, pre>>
    /\ UNCHANGED <<ctx_vars, resp_vars, exp_vars, cls_vars, wf_vars, model_vars, mgr_vars>>

\* finally: session.close(); the call returns the body's value or the
\* exception reaches the caller
SessionClose ==
    /\ spc = "close"
    /\ slog' = Append(slog, "close")
    /\ spc' = "idle"
    /\ sresult' = IF sexc = ""
                  THEN [status |-> "returned", exc |-> "", value |-> sret]
                  ELSE [status |-> "raised", exc |-> sexc, value |-> RetNone]
    /\ UNCHANGED <<db, sdb, scall, sret, sexc, pre>>
    /\ UNCHANGED <<ctx_vars, resp_vars, exp_vars, cls_vars, wf_vars, model_vars, mgr_vars>>

EmptyTables == [categories |-> {}, expenses |-> {}]

InitDatabase ==
    /\ db = EmptyTables
    /\ sdb = EmptyTables
    /\ spc = "idle"
    /\ scall = [op |-> "none"]
    /\ sret = RetNone
    /\ sexc = ""
    /\ slog = <<>>
    /\ sresult = [status |-> "none", exc |-> "", value |-> RetNone]
    /\ pre = EmptyTables

NextDatabase ==
    \/ CallRepository
    \/ SessionBody
    \/ SessionCommit
    \/ SessionRollback
    \/ SessionClose

----------------------------------------------------------------------------
(* ExpenseWorkflow.record_expense and WorkflowUI *)

\* len(list(Currency)) and len(list(PaymentMethod))
NumCurrencies == 10

NumPaymentMethods == 7

\* what one call of input() gives a prompt, after strip(): nothing, a text
\* that is no number, a number, or an exception raised by input()
EntryEmpty == [kind |-> "empty"]

EntryWord == [kind |-> "word"]

EntryNumber(n) == [kind |-> "number", val |-> n]

EntryRaises(exc) == [kind |-> "raises", exc |-> exc]

InputExceptions == { EntryRaises("KeyboardInterrupt"), EntryRaises("EOFError") }

\* the entries tried at the amount prompt
AmountEntries ==
    {EntryEmpty, EntryWord} \cup { EntryNumber(n) : n \in {-1, 0, 1, 2} }
        \cup InputExceptions

\* the entries tried at a numbered menu of n items
ChoiceEntries(n) ==
    {EntryEmpty, EntryWord} \cup { EntryNumber(k) : k \in {0, 1, n + 1} }
        \cup InputExceptions

\* the entries tried at a free-text prompt
TextEntries == {EntryEmpty, [kind |-> "text", text |-> "lunch"]} \cup InputExceptions

\* the answers tried at the confirmation prompt, before strip().lower()
ConfirmAnswers == {"y", "yes", "Y", "n", "no", "maybe", ""}

Lower(t) == IF t = "Y" THEN "y" ELSE t

\* Session(self._engine): expire_on_commit keeps its default
ExpireOnCommit == TRUE

Logged(log, event) == \E i \in 1 .. Len(log) : log[i] = event

\* reading a column attribute of an instance a repository call returned:
\* the commit expired the instance and the close detached it, so the
\* attribute cannot be loaded and DetachedInstanceError is raised
LoadRaises(log) ==
    ExpireOnCommit /\ Logged(log, "commit") /\ Logged(log, "close")

\* record_expense returns None: after a cancellation (exc = "") or from its
\* except Exception clause
ReturnNone(exc) ==
    /\ wpc' = "done"
    /\ wresult' = [status |-> "returned", exc |-> exc, value |-> RetNone]
    /\ UNCHANGED <<wdata, wcats, wconfirmed, wpre, wchoice, wtried>>

\* an exception leaves record_expense
Propagate(exc) ==
    /\ wpc' = "done"
    /\ wresult' = [status |-> "raised", exc |-> exc, value |-> RetNone]
    /\ UNCHANGED <<wdata, wcats, wconfirmed, wpre, wchoice, wtried>>

\* a prompt asks again
AskAgain == UNCHANGED wf_vars

\* the Amount prompt turns an entry down and asks again
TurnedDown(e) ==
    /\ wtried' = wtried \cup {e}
    /\ UNCHANGED <<wpc, wdata, wcats, wconfirmed, wresult, wpre, wchoice>>

\* an amount check that lets zero through
AmountAccepted_ZeroPasses(amount) == ~(amount < 0)

\* if amount <= 0: continue -- TRUE when the amount is returned
AmountAccepted(amount) == ~(amount <= 0)

\* a step of _get_expense_data is done
Collected(field, value, next) ==
    /\ wdata' = DictSet(wdata, field, value)
    /\ wpc' = next
    /\ UNCHANGED <<wcats, wconfirmed, wresult, wpre, wchoice, wtried>>

\* record_expense(user_name) is called
StartRecordExpense ==
    /\ wpc \in {"idle", "done"}
    /\ spc = "idle"
    /\ NextId(db.expenses) <= MaxExpenses
    /\ wpc' = "amount"
    /\ wdata' = [user_name |-> "ann"]
    /\ wcats' = <<>>
    /\ wconfirmed' = FALSE
    /\ wresult' = [status |-> "running", exc |-> "", value |-> RetNone]
    /\ wpre' = db.expenses
    /\ wchoice' = [kind |-> "none"]
    /\ wtried' = {}
    /\ UNCHANGED <<ctx_vars, resp_vars, exp_vars, cls_vars, db_vars, model_vars, mgr_vars>>

\* _get_amount_input: one entry at the Amount prompt
GetAmountInput ==
    /\ wpc = "amount"
    /\ \E e \in AmountEntries :
          CASE e.kind = "raises" ->
                  IF e.exc = "KeyboardInterrupt" THEN ReturnNone("")
                  ELSE ReturnNone(e.exc)
            [] e.kind = "number" ->
                  IF AmountAccepted(e.val)
                  THEN Collected("amount", e.val, "currency")
                  ELSE TurnedDown(e)
            [] OTHER -> TurnedDown(e)
    /\ UNCHANGED <<ctx_vars, resp_vars, exp_vars, cls_vars, db_vars, model_vars, mgr_vars>>

\* _get_currency_selection: one entry at the currency menu
GetCurrencySelection ==
    /\ wpc = "currency"
    /\ \E e \in ChoiceEntries(NumCurrencies) :
          CASE e.kind = "raises" ->
                  IF e.exc = "KeyboardInterrupt" THEN ReturnNone("")
                  ELSE ReturnNone(e.exc)
            [] e.kind = "number" ->
                  IF 1 <= e.val /\ e.val <= NumCurrencies
                  THEN Collected("currency", e.val, "description")
                  ELSE AskAgain
            [] OTHER -> AskAgain
    /\ UNCHANGED <<ctx_vars, resp_vars, exp_vars, cls_vars, db_vars, model_vars, mgr_vars>>

\* prompt_for_input("Description"): one entry
GetDescription ==
    /\ wpc = "description"
    /\ \E e \in TextEntries :
          CASE e.kind = "raises" ->
                  IF e.exc = "KeyboardInterrupt" THEN ReturnNone("")
                  ELSE ReturnNone(e.exc)
            [] e.kind = "text" -> Collected("description", e.text, "payment")
            [] OTHER -> AskAgain
    /\ UNCHANGED <<ctx_vars, resp_vars, exp_vars, cls_vars, db_vars, model_vars, mgr_vars>>

\* _get_payment_method_selection: one entry at the payment method menu
GetPaymentMethodSelection ==
    /\ wpc = "payment"
    /\ \E e \in ChoiceEntries(NumPaymentMethods) :
          CASE e.kind = "raises" ->
                  IF e.exc = "KeyboardInterrupt" THEN ReturnNone("")
                  ELSE ReturnNone(e.exc)
            [] e.kind = "number" ->
                  IF 1 <= e.val /\ e.val <= NumPaymentMethods
                  THEN Collected("payment_method", e.val, "notes")
                  ELSE AskAgain
            [] OTHER -> AskAgain
    /\ UNCHANGED <<ctx_vars, resp_vars, exp_vars, cls_vars, db_vars, model_vars, mgr_vars>>

\* prompt_for_input("Notes (optional)", required=False)
GetNotes ==
    /\ wpc = "notes"
    /\ \E e \in TextEntries :
          CASE e.kind = "raises" ->
                  IF e.exc = "KeyboardInterrupt" THEN ReturnNone("")
                  ELSE ReturnNone(e.exc)
            [] e.kind = "text" ->
                  Collected("notes", e.text, "date")
            [] OTHER ->
                  Collected("notes", "", "date")
    /\ UNCHANGED <<ctx_vars, resp_vars, exp_vars, cls_vars, db_vars, model_vars, mgr_vars>>

\* _get_date_input gives the current time and _get_expense_data returns its
\* dict; _get_category_selection calls get_all_categories(active_only=True)
QueryCategories ==
    /\ wpc = "date"
    /\ spc = "idle"
    /\ Invoke([op |-> "get_all_categories", active_only |-> TRUE])
    /\ wpc' = "category"
    /\ wdata' = DictSet(wdata, "expense_date", "now")
    /\ UNCHANGED <<wcats, wconfirmed, wresult, wpre, wchoice, wtried>>
    /\ UNCHANGED <<ctx_vars, resp_vars, exp_vars, cls_vars, model_vars, mgr_vars>>

\* _get_category_selection once the categories are back: no category when
\* the list is empty, else the menu is displayed (reading is_active, name
\* and description of each category) and one entry is taken; then
\* record_expense reads category.id
GetCategorySelection ==
    /\ wpc = "category"
    /\ spc = "idle"
    /\ IF sresult.status = "raised" THEN ReturnNone(sresult.exc)
       ELSE LET categories == sresult.value.rows
            IN  IF categories = <<>>
                THEN /\ wdata' = DictSet(wdata, "category_id", None)
                     /\ wpc' = "confirm"
                     /\ UNCHANGED <<wcats, wconfirmed, wresult, wpre, wchoice, wtried>>
                ELSE IF LoadRaises(slog)
                THEN ReturnNone("DetachedInstanceError")
                ELSE \E e \in ChoiceEntries(Len(categories)) :
                        CASE e.kind = "raises" /\ e.exc = "KeyboardInterrupt" ->
                                /\ wdata' = DictSet(wdata, "category_id", None)
                                /\ wpc' = "confirm"
                                /\ wcats' = categories
                                /\ wchoice' = e
                                /\ UNCHANGED <<wconfirmed, wresult, wpre, wtried>>
                          [] e.kind = "raises" /\ e.exc # "KeyboardInterrupt" ->
                                ReturnNone(e.exc)
                          [] e.kind = "number" /\ 1 <= e.val /\ e.val <= Len(categories) ->
                                /\ wdata' = DictSet(wdata, "category_id",
                                                    Some(categories[e.val].id))
                                /\ wpc' = "confirm"
                                /\ wcats' = categories
                                /\ wchoice' = e
                                /\ UNCHANGED <<wconfirmed, wresult, wpre, wtried>>
                          [] e.kind = "number" /\ e.val = Len(categories) + 1 ->
                                /\ wdata' = DictSet(wdata, "category_id", None)
                                /\ wpc' = "confirm"
                                /\ wcats' = categories
                                /\ wchoice' = e
                                /\ UNCHANGED <<wconfirmed, wresult, wpre, wtried>>
                          [] OTHER -> AskAgain
    /\ UNCHANGED <<ctx_vars, resp_vars, exp_vars, cls_vars, db_vars, model_vars, mgr_vars>>

\* confirm_expense_details: one answer to "Save this expense? (y/n)"; on
\* y/yes record_expense calls create_expense(expense_data)
ConfirmExpenseDetails ==
    /\ wpc = "confirm"
    /\ spc = "idle"
    /\ \/ \E answer \in ConfirmAnswers :
             CASE Lower(answer) \in {"y", "yes"} ->
                     /\ wconfirmed' = TRUE
                     /\ Invoke([op |-> "create_expense", data |-> wdata])
                     /\ wpc' = "create"
                     /\ UNCHANGED <<wdata, wcats, wresult, wpre, wchoice, wtried>>
               [] Lower(answer) \in {"n", "no"} ->
                     ReturnNone("") /\ UNCHANGED db_vars
               [] OTHER -> AskAgain /\ UNCHANGED db_vars
       \/ \E e \in InputExceptions :
             /\ IF e.exc = "KeyboardInterrupt" THEN Propagate(e.exc)
                ELSE ReturnNone(e.exc)
             /\ UNCHANGED db_vars
    /\ UNCHANGED <<ctx_vars, resp_vars, exp_vars, cls_vars, model_vars, mgr_vars>>

\* record_expense after create_expense: the success message reads
\* expense.id, the log line reads description, amount and currency, and the
\* expense is returned; an exception on the way is caught and None returned
ReportExpense ==
    /\ wpc = "create"
    /\ spc = "idle"
    /\ IF sresult.status = "raised" THEN ReturnNone(sresult.exc)
       ELSE IF LoadRaises(slog) THEN ReturnNone("DetachedInstanceError")
       ELSE /\ wpc' = "done"
            /\ wresult' = [status |-> "returned", exc |-> "",
                           value |-> sresult.value]
            /\ UNCHANGED <<wdata, wcats, wconfirmed, wpre, wchoice, wtried>>
    /\ UNCHANGED <<ctx_vars, resp_vars, exp_vars, cls_vars, db_vars, model_vars, mgr_vars>>

InitWorkflow ==
    /\ wpc = "idle"
    /\ wdata = EmptyDict
    /\ wcats = <<>>
    /\ wconfirmed = FALSE
    /\ wresult = [status |-> "none", exc |-> "", value |-> RetNone]
    /\ wpre = {}
    /\ wchoice = [kind |-> "none"]
    /\ wtried = {}

\* the tables a workflow can be constructed over: rows with distinct ids
Tables(rows) == { t \in SUBSET rows : \A r, q \in t : r.id = q.id => r = q }

Stores ==
    { [categories |-> c, expenses |-> e] :
        c \in Tables({ CategoryRow(i, a) : i \in 1 .. MaxCategories, a \in BOOLEAN }),
        e \in Tables({ ExpenseRow(i, 1, c) : i \in 1 .. MaxExpenses,
                                             c \in {None, Some(1)} }) }

NextWorkflow ==
    \/ StartRecordExpense
    \/ GetAmountInput
    \/ GetCurrencySelection
    \/ GetDescription
    \/ GetPaymentMethodSelection
    \/ GetNotes
    \/ QueryCategories
    \/ GetCategorySelection
    \/ ConfirmExpenseDetails
    \/ ReportExpense
    \/ SessionBody
    \/ SessionCommit
    \/ SessionRollback
    \/ SessionClose

----------------------------------------------------------------------------
(* Category and Expense (models.py) *)

\* datetime.now(timezone.utc) evaluated in the class body, when models.py
\* is imported: the default of created_at
ImportTime == 0

Timestamps == 0 .. MaxClock

\* the keyword arguments of Category(...)
CategoryKwargs ==
    { [name |-> "food", description |-> "meals", color_code |-> "#fff"] @@ a @@ c :
        a \in { EmptyDict, [is_active |-> TRUE], [is_active |-> FALSE] },
        c \in { EmptyDict } \cup { [created_at |-> v] : v \in Optional(Timestamps) } }

\* the keyword arguments of Expense(...)
ExpenseKwargs ==
    { [user_name |-> "ann", amount |-> 1, currency |-> "USD",
       description |-> "lunch", notes |-> "tip"] @@ g @@ p @@ d @@ c :
        g \in { EmptyDict, [category_id |-> None], [category_id |-> Some(1)] },
        p \in { EmptyDict, [payment_method |-> "Cash"] },
        d \in { EmptyDict } \cup { [expense_date |-> Some(t)] : t \in Timestamps },
        c \in { EmptyDict } \cup { [created_at |-> v] : v \in Optional(Timestamps) } }

\* the arguments of Expense.create_expense(...)
CreateExpenseArgs ==
    { [user_name |-> "ann", amount |-> 1, currency |-> "USD",
       description |-> "lunch"] @@ g @@ p @@ d @@ n :
        g \in { [category_id |-> None], [category_id |-> Some(1)] },
        p \in { EmptyDict, [payment_method |-> "Cash"] },
        d \in { EmptyDict } \cup { [expense_date |-> v] : v \in Optional(Timestamps) },
        n \in { EmptyDict, [notes |-> "tip"] } }

\* the field defaults of Category; created_at has the import-time value
CategoryDefaults ==
    [id |-> None, is_active |-> TRUE, created_at |-> Some(ImportTime)]

\* the field defaults of Expense: default_factory of expense_date runs at
\* construction, created_at has the import-time value
ExpenseDefaults(now) ==
    [id |-> None, category_id |-> None, expense_date |-> Some(now),
     created_at |-> Some(ImportTime), payment_method |-> "Other"]

\* super().__init__(**kwargs) of a table model: the keyword arguments are
\* stored as given, the other fields take their defaults
TableConstruct(defaults, kwargs) ==
    [f \in DOMAIN defaults \cup DOMAIN kwargs |->
        IF f \in DOMAIN kwargs THEN kwargs[f] ELSE defaults[f]]

\* an __init__ that leaves created_at as it is
FillCreatedAt_Never(created_at, now) == created_at

\* if self.created_at is None: self.created_at = datetime.now(timezone.utc)
FillCreatedAt(created_at, now) ==
    IF created_at = None THEN Some(now) ELSE created_at

\* Category.__init__
CategoryInit(kwargs, now) ==
    LET o == TableConstruct(CategoryDefaults, kwargs)
    IN  [o EXCEPT !.created_at = FillCreatedAt(@, now)]

\* Expense.__init__
ExpenseInit(kwargs, now) ==
    LET o == TableConstruct(ExpenseDefaults(now), kwargs)
    IN  [o EXCEPT !.created_at = FillCreatedAt(@, now)]

\* Expense.create_expense
create_expense(args, now) ==
    LET given == DictGet(args, "expense_date", None)
        expense_date == IF given = None THEN Some(now) ELSE given
    IN  ExpenseInit([user_name |-> args.user_name,
                     category_id |-> args.category_id,
                     amount |-> args.amount,
                     currency |-> args.currency,
                     description |-> args.description,
                     expense_date |-> expense_date,
                     payment_method |-> DictGet(args, "payment_method", "Other"),
                     notes |-> DictGet(args, "notes", "")], now)

\* Category(**kwargs) at some time not before the last construction
NewCategory ==
    /\ \E kwargs \in CategoryKwargs, now \in mnow .. MaxClock :
          /\ mcall' = [cls |-> "Category", via |-> "init", kwargs |-> kwargs]
          /\ mobj' = << CategoryInit(kwargs, now) >>
          /\ mnow' = now
    /\ UNCHANGED <<ctx_vars, resp_vars, exp_vars, cls_vars, db_vars, wf_vars, mgr_vars>>

\* Expense(**kwargs)
NewExpense ==
    /\ \E kwargs \in ExpenseKwargs, now \in mnow .. MaxClock :
          /\ mcall' = [cls |-> "Expense", via |-> "init", kwargs |-> kwargs]
          /\ mobj' = << ExpenseInit(kwargs, now) >>
          /\ mnow' = now
    /\ UNCHANGED <<ctx_vars, resp_vars, exp_vars, cls_vars, db_vars, wf_vars, mgr_vars>>

\* Expense.create_expense(**args)
NewExpenseByFactory ==
    /\ \E args \in CreateExpenseArgs, now \in mnow .. MaxClock :
          /\ mcall' = [cls |-> "Expense", via |-> "create_expense", kwargs |-> args]
          /\ mobj' = << create_expense(args, now) >>
          /\ mnow' = now
    /\ UNCHANGED <<ctx_vars, resp_vars, exp_vars, cls_vars, db_vars, wf_vars, mgr_vars>>

InitModels ==
    /\ mcall = [cls |-> "none"]
    /\ mobj = <<>>
    /\ mnow = ImportTime

NextModels ==
    \/ NewCategory
    \/ NewExpense
    \/ NewExpenseByFactory

----------------------------------------------------------------------------
(* DatabaseManager.__new__ / __init__ and the constructors that use it *)

\* who asks for a manager
Constructors == {"direct", "CategoryRepository", "ExpenseRepository", "ExpenseWorkflow"}

\* the objects that hold the manager once a constructor is done: the
\* workflow hands its manager to the two repositories it builds
HoldersOf(who, manager) ==
    IF who = "ExpenseWorkflow"
    THEN << [who |-> "ExpenseWorkflow", manager |-> manager],
            [who |-> "CategoryRepository", manager |-> manager],
            [who |-> "ExpenseRepository", manager |-> manager] >>
    ELSE << [who |-> who, manager |-> manager] >>

\* a __new__ that allocates every time
SingletonNew_Always(instance, objects) == Len(objects) + 1

\* __new__: the object it returns -- a new one (the next object number)
\* when cls._instance is None, cls._instance otherwise
SingletonNew(instance, objects) ==
    IF instance = None THEN Len(objects) + 1 ELSE instance.val

\* a constructor is called: with a manager (db_manager or DatabaseManager()
\* takes the one given) or without, which calls DatabaseManager()
StartConstruction ==
    /\ dpc = "idle"
    /\ \E who \in Constructors :
          /\ Len(dholders) + Len(HoldersOf(who, 1)) <= MaxHolders
          /\ \/ /\ dcaller' = [who |-> who, self |-> None]
                /\ dpc' = "new"
                /\ UNCHANGED dholders
             \/ /\ who # "direct"
                /\ \E i \in 1 .. Len(dholders) :
                      /\ dholders' = dholders \o HoldersOf(who, dholders[i].manager)
                      /\ dcaller' = [who |-> who, self |-> Some(dholders[i].manager)]
                /\ UNCHANGED dpc
    /\ UNCHANGED <<dinstance, dobjects, dengines>>
    /\ UNCHANGED <<ctx_vars, resp_vars, exp_vars, cls_vars, db_vars, wf_vars, model_vars>>

\* DatabaseManager.__new__
ManagerNew ==
    /\ dpc = "new"
    /\ LET obj == SingletonNew(dinstance, dobjects)
       IN  /\ dobjects' = IF obj > Len(dobjects) THEN Append(dobjects, None)
                          ELSE dobjects
           /\ dinstance' = IF dinstance = None THEN Some(obj) ELSE dinstance
           /\ dcaller' = [dcaller EXCEPT !.self = Some(obj)]
    /\ dpc' = "init"
    /\ UNCHANGED <<dengines, dholders>>
    /\ UNCHANGED <<ctx_vars, resp_vars, exp_vars, cls_vars, db_vars, wf_vars, model_vars>>

\* DatabaseManager.__init__: create_engine when self._engine is None; it
\* may raise, and then the constructor that called does not complete
ManagerInit ==
    /\ dpc = "init"
    /\ LET self == dcaller.self.val
       IN  IF dobjects[self] = None
           THEN \/ /\ dengines' = dengines + 1
                   /\ dobjects' = [dobjects EXCEPT ![self] = Some(dengines + 1)]
                   /\ dholders' = dholders \o HoldersOf(dcaller.who, self)
                \/ UNCHANGED <<dengines, dobjects, dholders>>
           ELSE /\ dholders' = dholders \o HoldersOf(dcaller.who, self)
                /\ UNCHANGED <<dengines, dobjects>>
    /\ dpc' = "idle"
    /\ UNCHANGED <<dcaller, dinstance>>
    /\ UNCHANGED <<ctx_vars, resp_vars, exp_vars, cls_vars, db_vars, wf_vars, model_vars>>

InitManager ==
    /\ dpc = "idle"
    /\ dcaller = [who |-> "none", self |-> None]
    /\ dinstance = None
    /\ dobjects = <<>>
    /\ dengines = 0
    /\ dholders = <<>>

NextManager ==
    \/ StartConstruction
    \/ ManagerNew
    \/ ManagerInit

----------------------------------------------------------------------------

Init ==
    /\ InitContext /\ InitResponse /\ InitExpense /\ InitClassification
    /\ InitDatabase /\ InitWorkflow /\ InitModels /\ InitManager

\* ExpenseWorkflow(db_manager): a workflow constructed over a database that
\* already holds rows
InitStored ==
    /\ InitContext /\ InitResponse /\ InitExpense /\ InitClassification
    /\ InitWorkflow /\ InitModels /\ InitManager
    /\ db \in Stores
    /\ sdb = db
    /\ pre = db
    /\ spc = "idle"
    /\ scall = [op |-> "none"]
    /\ sret = RetNone
    /\ sexc = ""
    /\ slog = <<>>
    /\ sresult = [status |-> "none", exc |-> "", value |-> RetNone]

SpecContext == Init /\ [][NextContext]_vars

SpecResponse == Init /\ [][NextResponse]_vars

SpecExpense == Init /\ [][NextExpense]_vars

SpecClassification == Init /\ [][NextClassification]_vars

SpecDatabase == Init /\ [][NextDatabase]_vars

SpecWorkflow == InitStored /\ [][NextWorkflow]_vars

SpecModels == Init /\ [][NextModels]_vars

SpecManager == Init /\ [][NextManager]_vars

----------------------------------------------------------------------------
(* Claims about AssistantResponse *)

RawRequires == DictGet(rinput, "requires_clarification", FALSE)

RawQuestions == DictGet(rinput, "clarification_questions", <<>>)

\* C1: every AssistantResponse that construction returns with
\* requires_clarification true stores a non-empty clarification_questions.
C1_ClarificationHasQuestions ==
    rpc = "done" =>
        (robj[1].requires_clarification =>
            Len(robj[1].clarification_questions) > 0)

\* C2: requires_clarification=True with an empty or omitted question list
\* always ends in the inconsistent-clarification error, and no object is
\* produced, whatever the message is.
C2_InconsistentRejected ==
    (rpc \notin {"idle", "consistency"} /\ RawRequires /\ Len(RawQuestions) = 0) =>
        /\ rpc = "failed"
        /\ rerrors = {"inconsistent_clarification"}
        /\ robj = <<>>

\* the rule has rejected a call whose message was valid, with the list omitted
C2_Witness ==
    /\ rpc = "failed"
    /\ RawRequires
    /\ "clarification_questions" \notin DOMAIN rinput
    /\ rinput.message = <<"a">>
    /\ rerrors = {"inconsistent_clarification"}

\* C3: a returned AssistantResponse whose stored question list is non-empty
\* has requires_clarification true, whatever flag the caller passed.
C3_QuestionsForceFlag ==
    rpc = "done" =>
        (Len(robj[1].clarification_questions) > 0 =>
            robj[1].requires_clarification)

\* an object was returned for a call that passed the flag false with a question
C3_Witness ==
    /\ rpc = "done"
    /\ "requires_clarification" \in DOMAIN rinput
    /\ ~rinput.requires_clarification
    /\ Len(robj[1].clarification_questions) > 0
    /\ robj[1].requires_clarification

\* C4: the consistency pass is the first validator to run; its outcome is
\* decided by the raw flag and the raw (pre-trim) question list alone; the
\* questions are trimmed only after it; and an input that breaks both the
\* consistency rule and the message rule reports the consistency error only.
C4_ConsistencyFirst ==
    /\ Len(rlog) > 0 => rlog[1] = "validate_clarification_consistency"
    /\ \A i \in 2 .. Len(rlog) : rlog[i] # "validate_clarification_consistency"
    /\ rpc = "consistency" => rvalues = rinput
    /\ rpc \notin {"idle", "consistency"} =>
          /\ ("inconsistent_clarification" \in rerrors)
                <=> (RawRequires /\ Len(RawQuestions) = 0)
          /\ "inconsistent_clarification" \notin rerrors =>
                (DictGet(rvalues, "requires_clarification", FALSE)
                    <=> (RawRequires \/ Len(RawQuestions) > 0))
    /\ (rpc = "failed" /\ RawRequires /\ Len(RawQuestions) = 0) =>
          /\ rerrors = {"inconsistent_clarification"}
          /\ rlog = <<"validate_clarification_consistency">>

\* a call with a blank message and an inconsistent clarification state has
\* failed
C4_Witness ==
    /\ rpc = "failed"
    /\ Len(rinput.message) > 0
    /\ Len(Strip(rinput.message)) = 0
    /\ RawRequires
    /\ Len(RawQuestions) = 0
    /\ rerrors = {"inconsistent_clarification"}

----------------------------------------------------------------------------
(* Claims about ExpenseData *)

SuppliedAmount == DictGet(einput, "amount", None)

\* C8: construction fails for every supplied amount <= 0, never fails on
\* the amount when it is absent or > 0, and a returned object stores the
\* supplied amount.
C8_AmountPositive ==
    epc \in {"done", "failed"} =>
        /\ (SuppliedAmount.some /\ SuppliedAmount.val <= 0) =>
              (epc = "failed" /\ "invalid_amount" \in eerrors /\ eobj = <<>>)
        /\ (~SuppliedAmount.some \/ SuppliedAmount.val > 0) =>
              "invalid_amount" \notin eerrors
        /\ epc = "done" => eobj[1].amount = SuppliedAmount

\* a call passing the amount zero has failed
C8_Witness ==
    /\ epc = "failed"
    /\ SuppliedAmount = Some(0)
    /\ eerrors = {"invalid_amount"}

\* n space characters
Spaces(n) == [i \in 1 .. n |-> " "]

\* t is s without its leading and trailing whitespace
IsTrimOf(t, s) ==
    /\ Len(t) > 0 => (~IsSpace(t[1]) /\ ~IsSpace(t[Len(t)]))
    /\ \E i, j \in 0 .. Len(s) : s = Spaces(i) \o t \o Spaces(j)

\* v is None or a non-empty string with no whitespace at either end
NullOrTrimmed(v) ==
    v.some => (/\ Len(v.val) > 0
               /\ ~IsSpace(v.val[1])
               /\ ~IsSpace(v.val[Len(v.val)]))

SuppliedDescription == DictGet(einput, "description", None)

SuppliedNotes == DictGet(einput, "notes", None)

SuppliedDate == DictGet(einput, "expense_date", None)

C12_NotesNormalized ==
    epc = "done" =>
        /\ NullOrTrimmed(eobj[1].notes)
        /\ (SuppliedNotes.some /\ eobj[1].notes.some) =>
              IsTrimOf(eobj[1].notes.val, SuppliedNotes.val)

\* C13: a non-None expense_date of a returned ExpenseData has a tzinfo; a
\* naive input gets UTC with its wall-clock reading unchanged; an aware
\* input is stored exactly as supplied.
C13_DateTimezone ==
    epc = "done" =>
        /\ eobj[1].expense_date.some = SuppliedDate.some
        /\ eobj[1].expense_date.some =>
              /\ eobj[1].expense_date.val.tzinfo.some
              /\ eobj[1].expense_date.val.wall = SuppliedDate.val.wall
              /\ IF SuppliedDate.val.tzinfo.some
                 THEN eobj[1].expense_date = SuppliedDate
                 ELSE eobj[1].expense_date.val.tzinfo = Some(0)

\* a naive datetime with a non-zero reading was stored with UTC attached
C13_Witness ==
    /\ epc = "done"
    /\ SuppliedDate.some
    /\ ~SuppliedDate.val.tzinfo.some
    /\ SuppliedDate.val.wall = 1
    /\ eobj[1].expense_date = Some([wall |-> 1, tzinfo |-> Some(0)])

AsConstructed ==
    [amount |-> DictGet(evalues, "amount", None),
     description |-> DictGet(evalues, "description", None),
     notes |-> DictGet(evalues, "notes", None),
     expense_date |-> DictGet(evalues, "expense_date", None)]

\* C23: once constructed, an ExpenseData keeps the fields validation gave
\* it, so its amount stays positive, its description trimmed and non-empty
\* and its date timezone-aware.
C23_ImmutableOnceValidated ==
    epc \in {"done", "assigned"} =>
        /\ eobj[1] = AsConstructed
        /\ eobj[1].amount.some => eobj[1].amount.val > 0
        /\ eobj[1].description.some =>
              /\ eobj[1].description.val # <<>>
              /\ Strip(eobj[1].description.val) = eobj[1].description.val
        /\ eobj[1].expense_date.some => eobj[1].expense_date.val.tzinfo.some

----------------------------------------------------------------------------
(* Claims about the message of AssistantResponse *)

BlankMessage == \A i \in 1 .. Len(rinput.message) : IsSpace(rinput.message[i])

----------------------------------------------------------------------------
(* Claims about ClassificationResult *)

\* an alternative as the specification wants it: both keys, a numeric score
\* in [0, 1]
WellFormedAlternative(alt) ==
    /\ {"name", "score"} \subseteq DOMAIN alt
    /\ IsNumber(alt.score)
    /\ alt.score.float >= 0
    /\ alt.score.float <= ScoreScale

SuppliedAlternatives == DictGet(kinput, "alternative_categories", <<>>)

AllWellFormed ==
    \A i \in 1 .. Len(SuppliedAlternatives) :
        WellFormedAlternative(SuppliedAlternatives[i])

AlternativeErrors == {"missing_name_or_score", "score_not_in_range"}

\* C9: with the other fields valid, construction succeeds exactly when
\* 0.0 <= confidence_score <= 1.0, and fails with the out-of-range error
\* otherwise.
C9_ScoreRange ==
    ( /\ kpc \in {"done", "failed"}
      /\ "confidence" \in DOMAIN kinput
      /\ kinput.confidence \in ConfidenceLevel
      /\ AllWellFormed ) =>
        /\ (kpc = "done") <=>
              (kinput.confidence_score >= 0 /\ kinput.confidence_score <= ScoreScale)
        /\ kpc = "failed" => (kerrors = {"out_of_range"} /\ kobj = <<>>)
        /\ kpc = "done" => kobj[1].confidence_score = kinput.confidence_score

\* an object with the boundary score 1.0 was returned
C9_Witness ==
    /\ kpc = "done"
    /\ kinput.confidence_score = ScoreScale
    /\ kobj[1].confidence_score = ScoreScale

\* C10: one malformed entry rejects the whole alternative_categories list
\* (no object is returned, in particular none holding the well-formed
\* entries only), and a list of well-formed entries is stored unchanged.
C10_WholeListRejected ==
    kpc \in {"done", "failed"} =>
        /\ ~AllWellFormed =>
              /\ kpc = "failed"
              /\ kobj = <<>>
              /\ kerrors \cap AlternativeErrors # {}
        /\ AllWellFormed => kerrors \cap AlternativeErrors = {}
        /\ kpc = "done" => kobj[1].alternative_categories = SuppliedAlternatives

\* a list whose first entry is well-formed and whose second lacks "score"
\* has been rejected
C10_Witness ==
    /\ kpc = "failed"
    /\ Len(SuppliedAlternatives) = 2
    /\ WellFormedAlternative(SuppliedAlternatives[1])
    /\ "score" \notin DOMAIN SuppliedAlternatives[2]
    /\ kerrors = {"missing_name_or_score"}

----------------------------------------------------------------------------
(* Claims about ConversationContext *)

Min(a, b) == IF a < b THEN a ELSE b

\* the last k elements of s, for 0 <= k <= Len(s)
LastN(s, k) == [i \in 1 .. k |-> s[Len(s) - k + i]]

\* C5: after n add_message calls on a context constructed with an empty
\* history, the history is exactly the last min(n, 10) messages added, in
\* the order they were added.
C5_SlidingWindow ==
    (cpc = "live" /\ constructed = <<>>) =>
        conversation_history = LastN(added, Min(Len(added), 10))

\* twelve calls on an empty context have left ten entries
C5_Witness ==
    /\ cpc = "live"
    /\ constructed = <<>>
    /\ Len(added) = 12
    /\ Len(conversation_history) = 10
    /\ conversation_history[1] = added[3]

\* C6: get_recent_messages(count), count >= 0, returns exactly the last
\* min(count, len(history)) entries of the history, in order (the empty
\* list when count is 0 or the history is empty).
C6_RecentIsLastCount ==
    (cpc = "live" /\ recent_arg >= 0) =>
        recent = LastN(conversation_history,
                       Min(recent_arg, Len(conversation_history)))

\* C7: every entry of the history of a constructed context is a
\* {role, content} mapping whose role is "user" or "assistant", and a
\* rejected history is never stored.
C7_RolesRestricted ==
    /\ cpc = "live" =>
          \A i \in 1 .. Len(conversation_history) :
              /\ DOMAIN conversation_history[i] = {"role", "content"}
              /\ conversation_history[i].role \in {"user", "assistant"}
    /\ cpc = "rejected" => conversation_history = <<>>

\* C22: the history of a constructed ConversationContext never holds more
\* than 10 entries, whatever valid history it was constructed with and
\* whatever add_message calls follow.
C22_HistoryBounded ==
    cpc = "live" => Len(conversation_history) <= 10

----------------------------------------------------------------------------
(* Claims about the repositories and the session *)

\* a repository call has ended by returning to its caller
Returned(ops) ==
    spc = "idle" /\ sresult.status = "returned" /\ scall.op \in ops

\* the rows of a returned list, as a set
ReturnedRows == { sresult.value.rows[i] : i \in 1 .. Len(sresult.value.rows) }

Events(log) == { log[i] : i \in 1 .. Len(log) }

\* C16: get_all_categories(active_only=True) returns exactly the stored
\* categories whose is_active is true, and get_all_categories(active_only=
\* False) returns every stored category.
C16_ActiveOnlyFilter ==
    Returned({"get_all_categories"}) =>
        ReturnedRows =
            IF scall.active_only
            THEN { r \in pre.categories : r.is_active }
            ELSE pre.categories

\* C17: a session whose body completes is committed exactly once and then
\* closed; when the body or the commit raises, the session is rolled back,
\* nothing of it is committed, the exception reaches the caller and the
\* session is still closed; close is the last event, and no session is both
\* committed and rolled back.
C17_SessionLifecycle ==
    /\ (spc = "idle" /\ sresult.status = "returned") =>
          /\ slog = <<"commit", "close">>
          /\ db = sdb
    /\ (spc = "idle" /\ sresult.status = "raised" /\ sresult.exc # "ValueError") =>
          /\ slog \in { <<"rollback", "close">>,
                        <<"commit_failed", "rollback", "close">> }
          /\ db = pre
          /\ sresult.exc = sexc
    /\ (spc = "idle" /\ slog # <<>>) => slog[Len(slog)] = "close"
    /\ \A i \in 1 .. Len(slog) : slog[i] = "close" => i = Len(slog)
    /\ ~({"commit", "rollback"} \subseteq Events(slog))
    /\ spc \in {"body", "commit", "rollback"} => db = pre

\* a create whose session was rolled back after its commit failed: the row
\* the body added is not in the tables
C17_Witness ==
    /\ spc = "idle"
    /\ scall.op = "create_category"
    /\ sresult.status = "raised"
    /\ slog = <<"commit_failed", "rollback", "close">>
    /\ db = pre

\* the last call was a create whose input lacks a required key
C18_MissingKey ==
    \/ /\ scall.op = "create_category"
       /\ \E k \in {"name", "description", "color_code"} : k \notin DOMAIN scall.data
    \/ /\ scall.op = "create_expense"
       /\ \E k \in {"user_name", "amount", "currency", "description", "notes"} :
             k \notin DOMAIN scall.data

\* C18: create_category and create_expense raise ValueError when a required
\* key is missing, before a session is opened: no session event happens and
\* the tables are unchanged.
C18_RequiredKeysChecked ==
    C18_MissingKey =>
        /\ spc = "idle"
        /\ sresult.status = "raised"
        /\ sresult.exc = "ValueError"
        /\ slog = <<>>
        /\ db = pre

\* create_expense without notes, in a store that already holds a category
C18_Witness ==
    /\ scall.op = "create_expense"
    /\ DOMAIN scall.data = {"user_name", "amount", "currency", "description",
                            "category_id"}
    /\ sresult.exc = "ValueError"
    /\ db.categories # {}

HasId(rows, id) == \E r \in rows : r.id = id

\* C19: for an id that is not stored, update returns None and delete
\* returns False and the tables are unchanged; for a stored id, delete
\* returns True, no row with that id remains and every other row is
\* unchanged.
C19_UnknownAndKnownIds ==
    /\ (Returned({"update_category"}) /\ ~HasId(pre.categories, scall.id)) =>
          sresult.value = RetNone /\ db = pre
    /\ (Returned({"update_expense"}) /\ ~HasId(pre.expenses, scall.id)) =>
          sresult.value = RetNone /\ db = pre
    /\ (Returned({"delete_category"}) /\ ~HasId(pre.categories, scall.id)) =>
          sresult.value = RetBool(FALSE) /\ db = pre
    /\ (Returned({"delete_expense"}) /\ ~HasId(pre.expenses, scall.id)) =>
          sresult.value = RetBool(FALSE) /\ db = pre
    /\ (Returned({"delete_category"}) /\ HasId(pre.categories, scall.id)) =>
          /\ sresult.value = RetBool(TRUE)
          /\ ExecBody([op |-> "get_category_by_id", id |-> scall.id], db).ret
                = RetNone
          /\ db.categories = { r \in pre.categories : r.id # scall.id }
          /\ db.expenses = pre.expenses
    /\ (Returned({"delete_expense"}) /\ HasId(pre.expenses, scall.id)) =>
          /\ sresult.value = RetBool(TRUE)
          /\ ExecBody([op |-> "get_expense_by_id", id |-> scall.id], db).ret
                = RetNone
          /\ db.expenses = { r \in pre.expenses : r.id # scall.id }
          /\ db.categories = pre.categories

\* one of two stored categories was deleted and the other is still there
C19_Witness ==
    /\ Returned({"delete_category"})
    /\ Cardinality(pre.categories) = 2
    /\ sresult.value = RetBool(TRUE)
    /\ Cardinality(db.categories) = 1

----------------------------------------------------------------------------
(* Claims about record_expense *)

\* record_expense has ended by returning None
ReturnedNone ==
    wpc = "done" /\ wresult.status = "returned" /\ wresult.value = RetNone

\* record_expense has ended by returning an Expense
ReturnedExpense ==
    wpc = "done" /\ wresult.status = "returned" /\ wresult.value # RetNone

\* C20: record_expense writes an expense only after the user confirmed
\* with y/yes; when it returns None (cancelled, answered n/no, or a step
\* raised) the stored expenses are unchanged, and when it returns an Expense
\* exactly one new row was created.
C20_WriteOnlyWhenConfirmed ==
    /\ (wpc # "idle" /\ db.expenses # wpre) => wconfirmed
    /\ ReturnedNone => db.expenses = wpre
    /\ ReturnedExpense =>
          /\ wpre \subseteq db.expenses
          /\ Cardinality(db.expenses \ wpre) = 1

\* the stored categories whose is_active is true
ActiveCategories == { r \in db.categories : r.is_active }

\* the expenses this run of record_expense has stored
NewExpenses == IF wpc = "idle" THEN {} ELSE db.expenses \ wpre

\* C25: when an active category is stored, record_expense offers the active
\* categories; an expense recorded after the user picked entry k has the id
\* of the k-th offered category; an expense is stored without a category
\* only if the user chose [No Category], cancelled the selection, or no
\* active category is stored.
C25_CategorySelection ==
    /\ (wpc \in {"confirm", "create"} /\ ActiveCategories # {}) =>
          wcats = RowList(ActiveCategories)
    /\ \A r \in NewExpenses :
          /\ (wchoice.kind = "number" /\ wchoice.val <= Len(wcats)) =>
                r.category_id = Some(wcats[wchoice.val].id)
          /\ r.category_id = None =>
                \/ ActiveCategories = {}
                \/ wchoice.kind = "raises"
                \/ wchoice.kind = "number" /\ wchoice.val = Len(wcats) + 1

----------------------------------------------------------------------------
(* Claims about Category and Expense *)

\* the construction was given no created_at, or created_at=None
NoCreatedAt ==
    "created_at" \notin DOMAIN mcall.kwargs \/ mcall.kwargs.created_at = None

\* the construction was given no expense_date, or, through create_expense,
\* expense_date=None
NoExpenseDate ==
    \/ "expense_date" \notin DOMAIN mcall.kwargs
    \/ mcall.via = "create_expense" /\ mcall.kwargs.expense_date = None

\* the arguments that carry a value to store
Supplied ==
    { f \in DOMAIN mcall.kwargs :
        ~(f = "created_at" /\ NoCreatedAt) /\ ~(f = "expense_date" /\ NoExpenseDate) }

\* C21: a Category or Expense constructed without created_at (or with
\* created_at=None) has a created_at; an Expense constructed without
\* payment_method and expense_date (directly, or through create_expense
\* with expense_date=None) has payment_method OTHER and an expense_date;
\* every supplied field is stored as given.
C21_DefaultsPopulated ==
    mobj # <<>> =>
        /\ NoCreatedAt => mobj[1].created_at.some
        /\ (mcall.cls = "Expense" /\ "payment_method" \notin DOMAIN mcall.kwargs) =>
              mobj[1].payment_method = "Other"
        /\ (mcall.cls = "Expense" /\ NoExpenseDate) => mobj[1].expense_date.some
        /\ \A f \in Supplied : mobj[1][f] = mcall.kwargs[f]

\* an Expense built with created_at=None and neither payment_method nor
\* expense_date, after the clock has moved
C21_Witness ==
    /\ mobj # <<>>
    /\ mcall.cls = "Expense"
    /\ mcall.via = "init"
    /\ DOMAIN mcall.kwargs = {"user_name", "amount", "currency", "description",
                              "notes", "created_at"}
    /\ mcall.kwargs.created_at = None
    /\ mobj[1].created_at = Some(MaxClock)
    /\ mobj[1].expense_date = Some(MaxClock)
    /\ mobj[1].payment_method = "Other"

----------------------------------------------------------------------------
(* Claims about DatabaseManager *)

\* C24: after any number of constructions, made directly or by the
\* repositories and the workflow, every holder has the same DatabaseManager
\* object, create_engine has succeeded exactly once, and every holder's
\* manager carries that one engine.
C24_Singleton ==
    /\ Len(dobjects) <= 1
    /\ dengines <= 1
    /\ \A i, j \in 1 .. Len(dholders) : dholders[i].manager = dholders[j].manager
    /\ \A i \in 1 .. Len(dholders) : dobjects[dholders[i].manager] = Some(1)
    /\ dholders # <<>> => dengines = 1

\* a direct construction and a workflow built without a manager, one engine
C24_Witness ==
    /\ dpc = "idle"
    /\ Len(dholders) = 4
    /\ dholders[1].who = "direct"
    /\ dholders[2].who = "ExpenseWorkflow"
    /\ dcaller.who = "ExpenseWorkflow"
    /\ dholders[4].manager = dholders[1].manager
    /\ dengines = 1

====
